---- MODULE Spec2Model ----
(***************************************************************************)
(* A model of the covidtracker notebook (covidtracker-usa.ipynb): the      *)
(* table of cumulative county counts read from the CSV file, the one-time  *)
(* collate step that derives the daily counts, and the visualisation       *)
(* functions that the notebook cells and the two dropdown widgets call.    *)
(*                                                                         *)
(* A table (a DataFrame) is a sequence of records, one per row, in row     *)
(* order.  Dates are day numbers.  The fips column is left out: it is      *)
(* carried along unchanged and only keys the map drawing.                  *)
(***************************************************************************)
EXTENDS Integers, Sequences, FiniteSets, TLC

VARIABLES
    us_counties,        \* the table read from us-counties.csv, in file order
    full_df,            \* the derived table built by the collate cell
    pc,                 \* how far the notebook has run: "loaded", "collated", "ui"
    out,                \* what the last visualisation call did
    resid,              \* seasonal.resid of a plot_timeseries call
    anomaly_threshold,  \* the anomaly_threshold argument of that call
    anomalies           \* the positions that call flagged

vars == <<us_counties, full_df, pc, out, resid, anomaly_threshold, anomalies>>

-----------------------------------------------------------------------------
(* Program constants.                                                      *)

RECENT_DAYS == 14
CFR_CASE_LOOKBACK_DAYS == 14
DefaultAnomalyThreshold == 3

-----------------------------------------------------------------------------
(* Bounds of the model.                                                    *)

\* rows of an input table in arbitrary file order (SpecCollate)
MaxRows == 3
\* day numbers of those rows
MaxDay == 3
\* last day of the date-ordered tables the notebook is run on (Spec)
MaxDate == 16
\* length of a residual series and the size of its values (SpecAnomaly)
MaxResid == 4
MaxDev == 2
\* largest anomaly_threshold tried
MaxThreshold == 3

-----------------------------------------------------------------------------
(* Names.  pandas orders the categorical state and county columns by       *)
(* their categories, which read_csv/astype('category') sorts lexically.    *)

StateOrder == <<"Maryland", "Virginia">>
CountyOrder == <<"Fairfax", "Howard">>

Range(s) == {s[i] : i \in DOMAIN s}

StateNames == Range(StateOrder)
CountyNames == Range(CountyOrder)

Rank(order, name) == CHOOSE i \in DOMAIN order : order[i] = name

\* the sort key (date, state, county) of sort_values(by=['date','state','county'])
KeyLeq(a, b) ==
    \/ a.date < b.date
    \/ /\ a.date = b.date
       /\ \/ Rank(StateOrder, a.state) < Rank(StateOrder, b.state)
          \/ /\ a.state = b.state
             /\ Rank(CountyOrder, a.county) <= Rank(CountyOrder, b.county)

Key(r) == <<r.date, r.state, r.county>>

-----------------------------------------------------------------------------
(* The collate cell.                                                       *)

\* us_counties[(us_counties.state == state) & (us_counties.county == county)]:
\* the rows of one locality, in the order they have in the table
GroupRows(df, state, county) ==
    SelectSeq(df, LAMBDA r : r.state = state /\ r.county = county)

\* Series.diff().fillna(0): the difference to the row before, 0 for the first row
DiffFillna(ldf, col, k) ==
    IF k = 1 THEN 0 ELSE ldf[k][col] - ldf[k - 1][col]

\* a plausible slip: the first row keeps its count instead of 0
LocalDf_firstIsCount(ldf) ==
    [k \in DOMAIN ldf |->
        [date |-> ldf[k].date, state |-> ldf[k].state, county |-> ldf[k].county,
         cases |-> ldf[k].cases, deaths |-> ldf[k].deaths,
         daily_cases |-> IF k = 1 THEN ldf[k].cases ELSE DiffFillna(ldf, "cases", k),
         daily_deaths |-> IF k = 1 THEN ldf[k].deaths ELSE DiffFillna(ldf, "deaths", k)]]

\* a plausible slip: daily_deaths differenced from the cases column
LocalDf_copyPaste(ldf) ==
    [k \in DOMAIN ldf |->
        [date |-> ldf[k].date, state |-> ldf[k].state, county |-> ldf[k].county,
         cases |-> ldf[k].cases, deaths |-> ldf[k].deaths,
         daily_cases |-> DiffFillna(ldf, "cases", k),
         daily_deaths |-> DiffFillna(ldf, "cases", k)]]

\* the loop body: ldf with the two daily columns added
LocalDf(ldf) ==
    [k \in DOMAIN ldf |->
        [date |-> ldf[k].date, state |-> ldf[k].state, county |-> ldf[k].county,
         cases |-> ldf[k].cases, deaths |-> ldf[k].deaths,
         daily_cases |-> DiffFillna(ldf, "cases", k),
         daily_deaths |-> DiffFillna(ldf, "deaths", k)]]

\* the (state, county) keys of groupby(['state','county']).groups, in key order
GroupKeys(df) ==
    LET present == {<<r.state, r.county>> : r \in Range(df)}
        all == [i \in 1..(Len(StateOrder) * Len(CountyOrder)) |->
                   <<StateOrder[((i - 1) \div Len(CountyOrder)) + 1],
                     CountyOrder[((i - 1) % Len(CountyOrder)) + 1]>>]
    IN  SelectSeq(all, LAMBDA g : g \in present)

\* pd.concat(local_dfs, ignore_index=True)
RECURSIVE ConcatLocal(_, _, _)
ConcatLocal(df, keys, i) ==
    IF i > Len(keys) THEN <<>>
    ELSE LocalDf(GroupRows(df, keys[i][1], keys[i][2])) \o ConcatLocal(df, keys, i + 1)

\* one step of a stable sort: r goes behind every row whose key is not greater
InsertRow(sorted, r) ==
    LET n == Cardinality({i \in DOMAIN sorted : KeyLeq(sorted[i], r)})
    IN  SubSeq(sorted, 1, n) \o <<r>> \o SubSeq(sorted, n + 1, Len(sorted))

RECURSIVE SortValues(_)
SortValues(df) ==
    IF df = <<>> THEN <<>>
    ELSE InsertRow(SortValues(SubSeq(df, 1, Len(df) - 1)), df[Len(df)])

\* the whole cell: the value it gives full_df
CollateDf(df) == SortValues(ConcatLocal(df, GroupKeys(df), 1))

-----------------------------------------------------------------------------
(* Helpers of the visualisation functions.                                 *)

\* the dates of a table in ascending order: the index groupby('date') builds
DateIndex(df) ==
    LET S == {r.date : r \in Range(df)}
    IN  [i \in 1..Cardinality(S) |->
            CHOOSE d \in S : Cardinality({e \in S : e <= d}) = i]

\* the sum of one column over the rows of a table
RECURSIVE SumCol(_, _, _)
SumCol(df, col, i) ==
    IF i > Len(df) THEN 0 ELSE df[i][col] + SumCol(df, col, i + 1)

\* groupby('date').sum() of one column at one date
DateSum(df, col, d) == SumCol(SelectSeq(df, LAMBDA r : r.date = d), col, 1)

\* a comparison with the wrong sense
FilterState_ne(df, state) == SelectSeq(df, LAMBDA r : r.state # state)

\* df[df.state == state]: a value that is no category compares unequal to every row
FilterState(df, state) == SelectSeq(df, LAMBDA r : r.state = state)

\* df[df.county == county]
FilterCounty(df, county) == SelectSeq(df, LAMBDA r : r.county = county)

\* the filter of plot_daily_cumulative_summary and plot_timeseries: the county
\* is looked at only under "if state:"
FilterNested(df, state, county) ==
    IF state # ""
    THEN IF county # "" THEN FilterCounty(FilterState(df, state), county)
         ELSE FilterState(df, state)
    ELSE df

\* the filter of make_plots: two independent tests
FilterBoth(df, state, county) ==
    LET a == IF state # "" THEN FilterState(df, state) ELSE df
    IN  IF county # "" THEN FilterCounty(a, county) ELSE a

\* STL(local_series, robust=True) is given no period and takes it from the
\* frequency pandas infers from the date index; it raises ValueError when none
\* can be inferred: fewer than three dates, or dates that are not evenly spaced
STLPeriodKnown(dates) ==
    /\ Len(dates) >= 3
    /\ \A i \in 2..(Len(dates) - 1) : dates[i + 1] - dates[i] = dates[2] - dates[1]

\* a float: nan, inf, -inf, or the fraction num/den with den > 0
NaN == [kind |-> "nan", num |-> 0, den |-> 0]
Float(num, den) ==
    IF den = 0
    THEN IF num = 0 THEN NaN
         ELSE [kind |-> IF num > 0 THEN "inf" ELSE "-inf", num |-> 0, den |-> 0]
    ELSE [kind |-> "num",
          num |-> IF den > 0 THEN num ELSE 0 - num,
          den |-> IF den > 0 THEN den ELSE 0 - den]

IsFinite(x) == x.kind = "num"

\* equality of two floats as values; nan is no value and equals nothing
FloatEq(x, y) ==
    \/ x.kind = "num" /\ y.kind = "num" /\ x.num * y.den = y.num * x.den
    \/ x.kind \in {"inf", "-inf"} /\ x.kind = y.kind

-----------------------------------------------------------------------------
(* The visualisation functions.  A call is recorded as                     *)
(*   fn, state, county, column  the function and its arguments             *)
(*   rows     how many rows the locality filter left                       *)
(*   frame    the table the function built from them                       *)
(*   recent   the table behind the heatmaps (make_plots only)              *)
(*   plots    the figures it showed, in order                              *)
(*   raised   whether it ended in an exception                             *)

NoCall ==
    [fn |-> "none", state |-> "", county |-> "", column |-> "", rows |-> 0,
     frame |-> <<>>, recent |-> <<>>, plots |-> <<>>, raised |-> FALSE]

\* cum_sum_df = df[['date','cases','deaths']].groupby('date').sum()
CumSumDf(df) ==
    LET idx == DateIndex(df)
    IN  [i \in DOMAIN idx |->
            [date |-> idx[i], cases |-> DateSum(df, "cases", idx[i]),
             deaths |-> DateSum(df, "deaths", idx[i])]]

\* the title of plot_daily_cumulative_summary
SummaryTitle(state, county) ==
    IF state # ""
    THEN IF county # "" THEN <<county, " County, ", state, " Cumulative Cases & Deaths">>
         ELSE <<state, " Cumulative Cases & Deaths">>
    ELSE <<"US Cumulative Cases & Deaths">>

plot_daily_cumulative_summary(df, state, county) ==
    LET sel == FilterNested(df, state, county)
    IN  [fn |-> "plot_daily_cumulative_summary", state |-> state, county |-> county,
         column |-> "", rows |-> Len(sel), frame |-> CumSumDf(sel), recent |-> <<>>,
         plots |-> <<[fn |-> "plot_daily_cumulative_summary", column |-> "",
                      title |-> SummaryTitle(state, county),
                      traces |-> <<"Total Cases", "Deaths">>]>>,
         raised |-> FALSE]

\* local_series = df[['date', column]].groupby('date').sum().sort_index()[column];
\* the sum of a date whose only value is nan is 0
LocalSeries(df, column) ==
    LET idx == DateIndex(df)
    IN  [i \in DOMAIN idx |-> [date |-> idx[i], value |-> DateSum(df, column, idx[i])]]

\* the figure plot_timeseries shows when the decomposition went through
\* (baseline_type is left at 'ra')
TimeseriesFigure(column, title) ==
    [fn |-> "plot_timeseries", column |-> column, title |-> title,
     traces |-> <<column, "Baseline (Rolling Average)", "Anomalies">>]

plot_timeseries(df, column, state, county, title) ==
    LET sel == FilterNested(df, state, county)
        series == LocalSeries(sel, column)
        fits == STLPeriodKnown(DateIndex(sel))
    IN  [fn |-> "plot_timeseries", state |-> state, county |-> county,
         column |-> column, rows |-> Len(sel), frame |-> series, recent |-> <<>>,
         plots |-> IF fits THEN <<TimeseriesFigure(column, title)>> ELSE <<>>,
         raised |-> ~fits]

plot_heatmap(column) ==
    [fn |-> "plot_heatmap", column |-> column,
     title |-> <<column, " in Last ", "RECENT_DAYS", " Days by County">>,
     traces |-> <<column>>]

\* locality_df.groupby(['date']).agg(sum).reset_index()
AggByDate(df) ==
    LET idx == DateIndex(df)
    IN  [i \in DOMAIN idx |->
            [date |-> idx[i],
             cases |-> DateSum(df, "cases", idx[i]),
             deaths |-> DateSum(df, "deaths", idx[i]),
             daily_cases |-> DateSum(df, "daily_cases", idx[i]),
             daily_deaths |-> DateSum(df, "daily_deaths", idx[i])]]

\* a plausible slip: a zero denominator replaced by a zero ratio
CFRColumn_zeroGuard(agg) ==
    [i \in DOMAIN agg |->
        IF i <= CFR_CASE_LOOKBACK_DAYS THEN NaN
        ELSE IF agg[i - CFR_CASE_LOOKBACK_DAYS].daily_cases = 0 THEN Float(0, 1)
        ELSE Float(100 * agg[i].daily_deaths,
                   agg[i - CFR_CASE_LOOKBACK_DAYS].daily_cases)]

\* (daily_deaths / daily_cases.shift(CFR_CASE_LOOKBACK_DAYS)) * 100: shift moves
\* the column down by that many rows and leaves nan in the rows it vacates
CFRColumn(agg) ==
    [i \in DOMAIN agg |->
        IF i <= CFR_CASE_LOOKBACK_DAYS THEN NaN
        ELSE Float(100 * agg[i].daily_deaths,
                   agg[i - CFR_CASE_LOOKBACK_DAYS].daily_cases)]

\* locality_df after the CFR column is assigned
LocalityDf(df, state, county) ==
    LET agg == AggByDate(FilterBoth(df, state, county))
        cfr == CFRColumn(agg)
    IN  [i \in DOMAIN agg |->
            [date |-> agg[i].date, cases |-> agg[i].cases, deaths |-> agg[i].deaths,
             daily_cases |-> agg[i].daily_cases, daily_deaths |-> agg[i].daily_deaths,
             CFR |-> cfr[i]]]

\* title_locality
TitleLocality(state, county) ==
    IF state # "" /\ county # "" THEN <<county, " County, ", state>>
    ELSE IF state # "" THEN <<state>>
    ELSE <<"US">>

\* recent_df: the state's rows from RECENT_DAYS before its last row on, the
\* daily columns summed per county
RecentDf(df, state) ==
    LET state_df == FilterState(df, state)
        start_time == state_df[Len(state_df)].date - RECENT_DAYS
        recent == SelectSeq(state_df, LAMBDA r : r.date >= start_time)
        present == SelectSeq(CountyOrder, LAMBDA c : \E r \in Range(recent) : r.county = c)
    IN  [i \in DOMAIN present |->
            [county |-> present[i],
             daily_cases |-> SumCol(FilterCounty(recent, present[i]), "daily_cases", 1),
             daily_deaths |-> SumCol(FilterCounty(recent, present[i]), "daily_deaths", 1)]]

\* the figures of a make_plots call that runs to its end: three timeseries,
\* then the two heatmaps when a state is selected
MakePlotsFigures(state, county) ==
    <<TimeseriesFigure("daily_cases", <<"Daily Cases: ">> \o TitleLocality(state, county)),
      TimeseriesFigure("daily_deaths", <<"Daily Deaths: ">> \o TitleLocality(state, county)),
      TimeseriesFigure("CFR", <<"Case Fatality Rate (T=", "CFR_CASE_LOOKBACK_DAYS", "): ">>
                              \o TitleLocality(state, county))>>
    \o (IF state # "" THEN <<plot_heatmap("daily_cases"), plot_heatmap("daily_deaths")>>
        ELSE <<>>)

\* make_plots(state, county).  The three plot_timeseries calls get locality_df
\* and no state, so they decompose three series over the same date index: the
\* first call raises, and ends make_plots, exactly when that index gives no period
make_plots(df, state, county) ==
    LET sel == FilterBoth(df, state, county)
        locality_df == LocalityDf(df, state, county)
        fits == STLPeriodKnown(DateIndex(sel))
    IN  [fn |-> "make_plots", state |-> state, county |-> county, column |-> "",
         rows |-> Len(sel), frame |-> locality_df,
         recent |-> IF fits /\ state # "" THEN RecentDf(df, state) ELSE <<>>,
         plots |-> IF fits THEN MakePlotsFigures(state, county) ELSE <<>>,
         raised |-> ~fits]

\* a plausible slip: the CFR column assigned before the aggregate frame is
\* built, so that with no filter applied it lands on full_df itself
FullDfAfterMakePlots_alias(df, state, county) ==
    IF state = "" /\ county = ""
    THEN [i \in DOMAIN df |->
             [date |-> df[i].date, state |-> df[i].state, county |-> df[i].county,
              cases |-> df[i].cases, deaths |-> df[i].deaths,
              daily_cases |-> df[i].daily_cases, daily_deaths |-> df[i].daily_deaths,
              CFR |-> NaN]]
    ELSE df

\* what a make_plots call leaves in full_df: locality_df starts as another name
\* for full_df, but the filters and the groupby build new frames, and the CFR
\* column is assigned to the groupby's result
FullDfAfterMakePlots(df, state, county) == df

-----------------------------------------------------------------------------
(* The anomaly step of plot_timeseries.                                    *)

RECURSIVE SumSeq(_, _)
SumSeq(s, i) == IF i > Len(s) THEN 0 ELSE s[i] + SumSeq(s, i + 1)

\* a comparison with the wrong sense
IsAnomaly_le(r, i, t) ==
    LET n == Len(r)
        S == SumSeq(r, 1)
        Q == SumSeq([k \in DOMAIN r |-> r[k] * r[k]], 1)
    IN  /\ n >= 2
        /\ t >= 0
        /\ (n * r[i] - S) * (n * r[i] - S) * (n - 1) <= t * t * n * (n * Q - S * S)

\* abs(resid[i] - resid.mean()) >= anomaly_threshold * resid.std(), in exact
\* arithmetic.  With n values of sum S and sum of squares Q, the mean is S/n and
\* the (n-1)-normalised variance is (n*Q - S*S) / (n*(n-1)); std() of fewer than
\* two values is nan, and a comparison with nan is false.
IsAnomaly(r, i, t) ==
    LET n == Len(r)
        S == SumSeq(r, 1)
        Q == SumSeq([k \in DOMAIN r |-> r[k] * r[k]], 1)
    IN  /\ n >= 2
        /\ \/ t < 0
           \/ (n * r[i] - S) * (n * r[i] - S) * (n - 1) >= t * t * n * (n * Q - S * S)

\* anomalies = seasonal.resid[...]: the positions of the flagged points
Anomalies(r, t) == {i \in DOMAIN r : IsAnomaly(r, i, t)}

-----------------------------------------------------------------------------
(* Input tables.                                                           *)

Localities == {<<"Virginia", "Fairfax">>, <<"Maryland", "Howard">>}

\* cumulative (cases, deaths) of a row
CountPairs == {<<10, 0>>, <<15, 1>>, <<20, 1>>}

Row(d, loc, c) ==
    [date |-> d, state |-> loc[1], county |-> loc[2], cases |-> c[1], deaths |-> c[2]]

InputRows == {Row(d, loc, c) : d \in 1..MaxDay, loc \in Localities, c \in CountPairs}

\* tables of up to MaxRows rows in any file order, one row per locality and date
InputTables ==
    UNION {{t \in [1..n -> InputRows] :
               \A i, j \in 1..n : i # j => Key(t[i]) # Key(t[j])} : n \in 0..MaxRows}

\* One locality's rows as the dataset publishes them: one row a day from day
\* `first` on, a new case every day.  `gap` is a day with no row (0: none).
\* On day `day` something happens: "nocases" no new case that day, "death" the
\* first death, "revised" a death reported from the start is withdrawn.
SeriesCases(d, first, kind, day) ==
    (d - first + 1) - (IF kind = "nocases" /\ d >= day THEN 1 ELSE 0)

SeriesDeaths(d, kind, day) ==
    IF kind = "death" THEN (IF d >= day THEN 1 ELSE 0)
    ELSE IF kind = "revised" THEN (IF d < day THEN 1 ELSE 0)
    ELSE 0

Series(loc, first, gap, kind, day) ==
    LET days == SelectSeq([i \in 1..(MaxDate - first + 1) |-> first + i - 1],
                          LAMBDA d : d # gap)
    IN  [i \in DOMAIN days |->
            Row(days[i], loc, <<SeriesCases(days[i], first, kind, day),
                              SeriesDeaths(days[i], kind, day)>>)]

\* the events tried: a day without a new case early on, and a death or a
\* withdrawn death on one of the last two days
Events ==
    {<<"none", 0>>, <<"nocases", 2>>}
    \cup ({"death", "revised"} \X {MaxDate - 1, MaxDate})

\* which localities the file holds: the first gets the series with the gap and
\* the event, the second (if any) a plain series that starts a day later
Layouts ==
    {<< <<"Virginia", "Fairfax">> >>,
     << <<"Virginia", "Fairfax">>, <<"Virginia", "Howard">> >>,
     << <<"Virginia", "Fairfax">>, <<"Maryland", "Howard">> >>,
     << <<"Maryland", "Howard">> >>}

\* the file is in (date, state, county) order
DatasetTable(layout, gap, ev) ==
    SortValues(Series(layout[1], 1, gap, ev[1], ev[2])
               \o (IF Len(layout) > 1 THEN Series(layout[2], 2, 0, "none", 0) ELSE <<>>))

DatasetTables ==
    {DatasetTable(layout, gap, ev) : layout \in Layouts, gap \in 0..MaxDate, ev \in Events}

-----------------------------------------------------------------------------
(* The notebook.                                                           *)

Args == (StateNames \cup {""}) \X (CountyNames \cup {""})

\* the cells up to "Load the New York Times COVID-19 Data" have run
Init ==
    /\ us_counties \in DatasetTables
    /\ full_df = <<>>
    /\ pc = "loaded"
    /\ out = NoCall
    /\ resid = <<>>
    /\ anomaly_threshold = DefaultAnomalyThreshold
    /\ anomalies = {}

\* the "Collate Data" cell
Collate ==
    /\ pc = "loaded"
    /\ full_df' = CollateDf(us_counties)
    /\ pc' = "collated"
    /\ UNCHANGED <<us_counties, out, resid, anomaly_threshold, anomalies>>

\* a call plot_daily_cumulative_summary(full_df, state, county), as in the
\* "US Cumulative Cases & Deaths" cell.  What a call does depends on full_df
\* and its arguments alone, so one call before the widgets are shown is
\* followed; calls after calls add no state.
PlotSummary(state, county) ==
    /\ pc = "collated"
    /\ out = NoCall
    /\ out' = plot_daily_cumulative_summary(full_df, state, county)
    /\ UNCHANGED <<us_counties, full_df, pc, resid, anomaly_threshold, anomalies>>

\* a call plot_timeseries(full_df, column, state, county), as in the
\* "US Timelines" cell
PlotTimeseries(column, state, county) ==
    /\ pc = "collated"
    /\ out = NoCall
    /\ out' = plot_timeseries(full_df, column, state, county, <<"Untitled">>)
    /\ UNCHANGED <<us_counties, full_df, pc, resid, anomaly_threshold, anomalies>>

\* the "Geographic Drill-Down" cell: the dropdowns are built with 'Virginia'
\* selected, which the Dropdown refuses unless it is one of the states of
\* full_df; interact then calls make_plots with the dropdowns' values
DisplayWidgets ==
    /\ pc = "collated"
    /\ "Virginia" \in {r.state : r \in Range(full_df)}
    /\ pc' = "ui"
    /\ out' = make_plots(full_df, "Virginia", "")
    /\ full_df' = FullDfAfterMakePlots(full_df, "Virginia", "")
    /\ UNCHANGED <<us_counties, resid, anomaly_threshold, anomalies>>

\* make_plots called again, by a dropdown change or directly
MakePlots(state, county) ==
    /\ pc = "ui"
    /\ out' = make_plots(full_df, state, county)
    /\ full_df' = FullDfAfterMakePlots(full_df, state, county)
    /\ UNCHANGED <<us_counties, pc, resid, anomaly_threshold, anomalies>>

Next ==
    \/ Collate
    \/ \E a \in Args : PlotSummary(a[1], a[2])
    \/ \E a \in Args : \E column \in {"daily_cases", "daily_deaths"} :
           PlotTimeseries(column, a[1], a[2])
    \/ DisplayWidgets
    \/ \E a \in Args : MakePlots(a[1], a[2])

Spec == Init /\ [][Next]_vars

\* the collate cell alone, on tables in any file order
InitCollate ==
    /\ us_counties \in InputTables
    /\ full_df = <<>>
    /\ pc = "loaded"
    /\ out = NoCall
    /\ resid = <<>>
    /\ anomaly_threshold = DefaultAnomalyThreshold
    /\ anomalies = {}

SpecCollate == InitCollate /\ [][Collate]_vars

\* the anomaly step alone, on any residual series: the state after a call with
\* the default threshold, and calls on the same series with other thresholds
ResidSeries == UNION {[1..n -> (0 - MaxDev)..MaxDev] : n \in 0..MaxResid}

Thresholds == (0 - 1)..MaxThreshold

InitAnomaly ==
    /\ us_counties = <<>>
    /\ full_df = <<>>
    /\ pc = "collated"
    /\ out = NoCall
    /\ resid \in ResidSeries
    /\ anomaly_threshold = DefaultAnomalyThreshold
    /\ anomalies = Anomalies(resid, DefaultAnomalyThreshold)

FlagAnomalies(t) ==
    /\ anomaly_threshold' = t
    /\ anomalies' = Anomalies(resid, t)
    /\ UNCHANGED <<us_counties, full_df, pc, out, resid>>

NextAnomaly == \E t \in Thresholds : FlagAnomalies(t)

SpecAnomaly == InitAnomaly /\ [][NextAnomaly]_vars

-----------------------------------------------------------------------------
(* Properties of the collate cell (checked under SpecCollate).             *)

\* the localities of a table
LocalitiesOf(df) == {<<r.state, r.county>> : r \in Range(df)}

\* the row of the derived table with the date and locality of an input row
Derived(r) == CHOOSE x \in Range(full_df) : Key(x) = Key(r)

\* the rows of one locality in the derived table, in its (date) order
DerivedGroup(loc) == GroupRows(full_df, loc[1], loc[2])

\* C1: in the collate loop every row of a locality after its first gets, for
\* cases and for deaths, its cumulative count minus the cumulative count of the
\* row just before it in the locality's frame; every input row is in the
\* derived table; so counts 10, 15, 20 listed on three days in a row get the
\* daily counts 0, 5, 5.
C1_DeltaFromPrecedingRow ==
    pc = "collated" =>
        /\ Len(full_df) = Len(us_counties)
        /\ \A loc \in LocalitiesOf(us_counties) :
               LET ldf == GroupRows(us_counties, loc[1], loc[2])
               IN  \A k \in DOMAIN ldf :
                       /\ \E x \in Range(full_df) : Key(x) = Key(ldf[k])
                       /\ Derived(ldf[k]).cases = ldf[k].cases
                       /\ Derived(ldf[k]).deaths = ldf[k].deaths
                       /\ k > 1 =>
                           /\ Derived(ldf[k]).daily_cases
                                  = ldf[k].cases - ldf[k - 1].cases
                           /\ Derived(ldf[k]).daily_deaths
                                  = ldf[k].deaths - ldf[k - 1].deaths

\* C1 witness: one locality listed with 10, 15, 20 cases on days 1, 2, 3 has
\* been collated to the daily counts 0, 5, 5.
C1_Witness ==
    /\ pc = "collated"
    /\ \E loc \in LocalitiesOf(us_counties) :
           LET ldf == GroupRows(us_counties, loc[1], loc[2])
           IN  /\ Len(ldf) = 3
               /\ [k \in 1..3 |-> ldf[k].date] = <<1, 2, 3>>
               /\ [k \in 1..3 |-> ldf[k].cases] = <<10, 15, 20>>
               /\ [k \in 1..3 |-> Derived(ldf[k]).daily_cases] = <<0, 5, 5>>
               /\ [k \in 1..3 |-> Derived(ldf[k]).daily_deaths] = <<0, 1, 0>>

\* the daily counts of a locality's rows up to row k of a frame, added up
RECURSIVE DailySum(_, _, _)
DailySum(rows, col, k) ==
    IF k = 0 THEN 0 ELSE rows[k][col] + DailySum(rows, col, k - 1)

\* C2 as stated: in every locality of the derived table the daily counts added
\* up from the first date to a row give that row's cumulative count.
C2_SumsBackToCumulative ==
    pc = "collated" =>
        \A loc \in LocalitiesOf(full_df) :
            LET g == DerivedGroup(loc)
            IN  \A k \in DOMAIN g :
                    /\ DailySum(g, "daily_cases", k) = g[k].cases
                    /\ DailySum(g, "daily_deaths", k) = g[k].deaths

\* C2 amended: the daily counts of a locality, added up over its rows in file
\* order from its first row to a row, give that row's cumulative count less
\* the cumulative count of the locality's first row.
C2_SumsBackLessFirst ==
    pc = "collated" =>
        \A loc \in LocalitiesOf(us_counties) :
            LET ldf == GroupRows(us_counties, loc[1], loc[2])
                d == [k \in DOMAIN ldf |-> Derived(ldf[k])]
            IN  \A k \in DOMAIN ldf :
                    /\ DailySum(d, "daily_cases", k) = ldf[k].cases - ldf[1].cases
                    /\ DailySum(d, "daily_deaths", k) = ldf[k].deaths - ldf[1].deaths

\* C2 witness: a collated locality of three rows whose counts start above zero
\* and whose daily counts add up to less than the last cumulative count.
C2_Witness ==
    /\ pc = "collated"
    /\ \E loc \in LocalitiesOf(full_df) :
           LET g == DerivedGroup(loc)
           IN  /\ Len(g) = 3
               /\ g[1].cases > 0
               /\ DailySum(g, "daily_cases", 3) > 0
               /\ DailySum(g, "daily_cases", 3) < g[3].cases

\* C3 as stated: in the derived table the first row of every locality has the
\* daily counts 0.
C3_FirstRowZero ==
    pc = "collated" =>
        \A loc \in LocalitiesOf(full_df) :
            /\ DerivedGroup(loc)[1].daily_cases = 0
            /\ DerivedGroup(loc)[1].daily_deaths = 0

\* the row of the same locality with the greatest earlier date, if any
EarlierRows(r) ==
    {x \in Range(full_df) : x.state = r.state /\ x.county = r.county /\ x.date < r.date}

LatestEarlier(r) ==
    CHOOSE x \in EarlierRows(r) : \A y \in EarlierRows(r) : y.date <= x.date

\* C8 as stated: whatever the order of the input rows, a row's daily count is
\* its cumulative count minus that of its locality's row with the greatest
\* earlier date (0 when there is none).
C8_DiffInDateOrder ==
    pc = "collated" =>
        \A r \in Range(full_df) :
            IF EarlierRows(r) = {}
            THEN r.daily_cases = 0 /\ r.daily_deaths = 0
            ELSE /\ r.daily_cases = r.cases - LatestEarlier(r).cases
                 /\ r.daily_deaths = r.deaths - LatestEarlier(r).deaths

-----------------------------------------------------------------------------
(* Properties of the visualisation calls (checked under Spec).             *)

StatesOf(df) == {r.state : r \in Range(df)}

\* the rows of locality_df whose CFR divides by a zero lagged daily_cases
ZeroDenominatorRows(frame) ==
    {i \in DOMAIN frame :
        /\ i > CFR_CASE_LOOKBACK_DAYS
        /\ frame[i - CFR_CASE_LOOKBACK_DAYS].daily_cases = 0}

FiguresOf(call) == [i \in DOMAIN call.plots |-> call.plots[i].fn]

\* C4 as stated: every make_plots call draws the cumulative summary, then the
\* timeseries plot, then the heatmap.
C4_SummaryTimeseriesHeatmap ==
    out.fn = "make_plots" =>
        \E i, j, k \in DOMAIN out.plots :
            /\ i < j /\ j < k
            /\ out.plots[i].fn = "plot_daily_cumulative_summary"
            /\ out.plots[j].fn = "plot_timeseries"
            /\ out.plots[k].fn = "plot_heatmap"

AbsentStateCall == out.fn # "none" /\ out.state # "" /\ out.state \notin StatesOf(full_df)

\* C6 as stated: a call that filters by a state occurring in no row gets an
\* empty result and finishes without an error.
C6_AbsentStateNoError ==
    AbsentStateCall => out.rows = 0 /\ ~out.raised

\* C6 amended: a call that filters by a state occurring in no row gets an empty
\* result; plot_daily_cumulative_summary then finishes and shows its (empty)
\* figure, while plot_timeseries and make_plots raise in the decomposition of
\* the empty series and show nothing.
C6_AbsentStateEmpty ==
    AbsentStateCall =>
        /\ out.rows = 0
        /\ out.frame = <<>>
        /\ out.fn = "plot_daily_cumulative_summary" => ~out.raised /\ Len(out.plots) = 1
        /\ out.fn \in {"plot_timeseries", "make_plots"} => out.raised /\ out.plots = <<>>

\* C6 witness: make_plots was called for Maryland on a table with rows but
\* none of Maryland, got no row and raised.
C6_Witness ==
    /\ out.fn = "make_plots"
    /\ out.state = "Maryland"
    /\ full_df # <<>>
    /\ "Maryland" \notin StatesOf(full_df)
    /\ out.rows = 0
    /\ out.raised

\* two floats that are the same value, or both undefined
SameFloat(x, y) == FloatEq(x, y) \/ (x.kind = "nan" /\ y.kind = "nan")

\* C9 as stated: the CFR of date d is 100 times the daily deaths of d over the
\* daily cases of the date CFR_CASE_LOOKBACK_DAYS calendar days before d
\* (undefined when the table has no such date), also when dates are missing.
C9_LagInCalendarDays ==
    out.fn = "make_plots" =>
        \A i \in DOMAIN out.frame :
            LET back == {j \in DOMAIN out.frame :
                            out.frame[j].date = out.frame[i].date - CFR_CASE_LOOKBACK_DAYS}
            IN  IF back = {} THEN out.frame[i].CFR.kind = "nan"
                ELSE \A j \in back :
                         SameFloat(out.frame[i].CFR,
                                   Float(100 * out.frame[i].daily_deaths,
                                         out.frame[j].daily_cases))

\* C10: once collated, full_df is changed by no call, and what a make_plots
\* call shows is what make_plots gives for its two arguments on the table as
\* collated, whatever was selected before.
C10_FullDfUntouched ==
    /\ [][pc # "loaded" => full_df' = full_df]_vars
    /\ [](out.fn = "make_plots" =>
             out = make_plots(CollateDf(us_counties), out.state, out.county))

\* C10 witness: after the first display (Virginia), make_plots has run with
\* both dropdowns empty and drew its figures, and full_df is still the
\* collated table.
C10_Witness ==
    /\ pc = "ui"
    /\ out.fn = "make_plots" /\ out.state = "" /\ out.county = ""
    /\ ~out.raised
    /\ full_df # <<>> /\ full_df = CollateDf(us_counties)

-----------------------------------------------------------------------------
(* Properties of the anomaly step (checked under SpecAnomaly).             *)

\* C7: on the same residual series, a call with a threshold that is not
\* smaller flags no more points (and none that the other did not flag).
C7_ThresholdMonotone ==
    [][(resid' = resid /\ anomaly_threshold' >= anomaly_threshold) =>
           /\ Cardinality(anomalies') <= Cardinality(anomalies)
           /\ anomalies' \subseteq anomalies]_vars

\* C7 witness: a series on which threshold 1 flags some points but not all,
\* and the next threshold flags fewer.
C7_Witness ==
    /\ anomaly_threshold = 1
    /\ anomalies # {}
    /\ Cardinality(anomalies) < Len(resid)
    /\ Cardinality(Anomalies(resid, 2)) < Cardinality(anomalies)

====
